---- MODULE Spec2Model ----
(***************************************************************************)
(* The realtime session coordinator of the chess platform, in its two      *)
(* deployments: the Cloudflare worker (src/worker/src/index.ts: the        *)
(* Durable Objects Room, Matchmaking and Hub) and the Node server          *)
(* (src/server/routes.ts: the rooms table, matchQueue, userConnections).   *)
(* The variable impl says which deployment a behaviour is of.              *)
(***************************************************************************)
EXTENDS Integers, Sequences, FiniteSets, TLC

\* ---------------------------------------------------------------- bounds
MaxConns == 3        \* websockets accepted by one incarnation of the server
MaxRestarts == 1     \* restarts of the Room Durable Object in one behaviour
MaxPending == 1      \* storage writes issued and not yet completed
MaxGameOvers == 2    \* game_over events that start a settlement in one behaviour
MaxNodeGameOvers == 1 \* settlements of the Node rooms specification
MaxInvites == 2      \* invites created in one behaviour
MaxResponds == 2     \* respond calls made in one behaviour

Conns == 1..MaxConns
None == 0                                   \* null / undefined
Users == {1, 2}                             \* user ids (users.id, from 1)
Positions == {"P1", "P2"}                   \* opaque position tokens (FEN)
NoFen == "null"

Username(u) == IF u = None THEN "" ELSE IF u = 1 THEN "ann" ELSE "bob"

VARIABLES
  impl,        \* "worker" | "node": the deployment
  \* ---- worker Room (src/worker/src/index.ts, class Room)
  fen, started, white, black, whiteMeta, blackMeta,
  sockets,     \* Map<WebSocket, RoomConn>; of a RoomConn only the role is ever
               \* read (userId and username are written and never used)
  stored,      \* the value under storage key "room" (NoStore: absent)
  pending,     \* storage.put calls issued and not yet completed, oldest first
  handlers,    \* per connection: close/error listener invocations still possible
  nextConn,    \* the number of the next websocket to be accepted
  restarts,    \* restarts so far
  out,         \* the sends of the handler that ran last, in order
  ev,          \* the handler that ran last and its input
  \* ---- Node server (src/server/routes.ts)
  rooms,       \* the rooms table: room id -> room
  \* ---- matchmaking (worker class Matchmaking; Node matchQueue)
  queue,       \* Matchmaking.queue: websockets waiting, oldest first
  mmSockets,   \* Matchmaking.sockets: websocket -> user id of its token
  matchQueue,  \* Node matchQueue: tickets {ws, userId}, oldest first
  closing,     \* Node websockets whose readyState is no longer OPEN and whose
               \* 'close' event has not been delivered yet
  \* ---- settlement (worker Room.handleGameOver; Node game_over branch)
  seatIds,     \* per room: the user ids recorded for the white and black seat
  db,          \* the users table: user id -> row
  games,       \* the number of rows of the games table
  tasks,       \* the settlements started so far, each with its position
  \* ---- invites (worker handleApi and class Hub; Node routes and userConnections)
  hubSockets,      \* Hub.sockets: websocket -> user id of its token
  userConnections, \* Node userConnections: user id -> websockets
  currentUserId,   \* Node: per websocket, the user id of its last auth message
  invites,         \* the invites created so far, in order of creation; a row
                   \* that was deleted stays with present = FALSE
  notifies,        \* /notify requests sent to the Hub and not yet handled
  responds         \* the respond calls made so far, each with its position

roomVars == <<fen, started, white, black, whiteMeta, blackMeta, sockets,
              stored, pending>>
nodeVars == <<rooms>>
matchVars == <<queue, mmSockets, matchQueue, closing>>
logVars == <<handlers, nextConn, restarts, out, ev>>
settleVars == <<seatIds, db, games, tasks>>
apiVars == <<hubSockets, userConnections, currentUserId, invites, notifies, responds>>
vars == <<impl, roomVars, nodeVars, matchVars, settleVars, apiVars, logVars>>

\* what the handlers of one component leave alone
exceptRoom == <<nodeVars, matchVars, settleVars, apiVars>>
exceptNode == <<roomVars, matchVars, settleVars, apiVars>>
exceptMatch == <<roomVars, nodeVars, settleVars, apiVars>>
exceptSettle == <<roomVars, nodeVars, matchVars, apiVars, logVars>>
exceptApi == <<roomVars, nodeVars, matchVars, settleVars>>

\* ------------------------------------------------------------- utilities
Min(S) == CHOOSE x \in S : \A y \in S : x <= y

RECURSIVE SeqOf(_)
\* the members of a set of connections in insertion order (websockets are
\* numbered in the order they are accepted)
SeqOf(S) == IF S = {} THEN <<>> ELSE <<Min(S)>> \o SeqOf(S \ {Min(S)})

RECURSIVE MapSeq(_, _)
MapSeq(s, payload) ==
  IF s = <<>> THEN <<>>
  ELSE <<[to |-> Head(s), msg |-> payload]>> \o MapSeq(Tail(s), payload)

SendsTo(c, type) == { i \in 1..Len(out) : out[i].to = c /\ out[i].msg.type = type }

\* ------------------------------------------------------------ worker Room
NoMeta == [id |-> None, username |-> ""]          \* {}
NoStore == [absent |-> TRUE]
Snapshot(f, s, wm, bm) == [fen |-> f, started |-> s, whiteMeta |-> wm, blackMeta |-> bm]

\* Room.send
send(ws, payload) == <<[to |-> ws, msg |-> payload]>>

\* a broadcast that ignores `except`
broadcast_ToAll(socks, payload, except) ==
  MapSeq(SeqOf(DOMAIN socks), payload)

\* Room.broadcast: to every socket of the map except `except`
broadcast(socks, payload, except) ==
  MapSeq(SeqOf(DOMAIN socks \ {except}), payload)

\* stats counting the seat-holders only
updateStats_SeatsOnly(socks) ==
  broadcast(socks, [type |-> "stats",
                    count |-> Cardinality({c \in DOMAIN socks : socks[c].role # "s"})], None)

\* Room.updateStats
updateStats(socks) ==
  broadcast(socks, [type |-> "stats", count |-> Cardinality(DOMAIN socks)], None)

\* Room.persist: storage.put is issued; it completes later (CompleteWrite).
\* When MaxPending writes are already outstanding the oldest completes first.
persist(snap) ==
  IF Len(pending) < MaxPending
  THEN /\ pending' = Append(pending, snap)
       /\ UNCHANGED stored
  ELSE /\ stored' = Head(pending)
       /\ pending' = Append(Tail(pending), snap)

\* assignRole without the `else`: a joiner that finds both seats vacant takes both
assignRole_BothSeats(ws, userId, username) ==
  LET role == IF white = None THEN "w" ELSE IF black = None THEN "b" ELSE "s" IN
  [ white     |-> IF white = None THEN ws ELSE white,
    black     |-> IF black = None THEN ws ELSE black,
    whiteMeta |-> IF white = None THEN [id |-> userId, username |-> username] ELSE whiteMeta,
    blackMeta |-> IF black = None THEN [id |-> userId, username |-> username] ELSE blackMeta,
    sockets   |-> [c \in DOMAIN sockets \cup {ws} |->
                     IF c = ws THEN [role |-> role]
                     ELSE sockets[c]],
    role      |-> role ]

\* assignRole testing the black seat first
assignRole_BlackFirst(ws, userId, username) ==
  LET role == IF black = None THEN "b" ELSE IF white = None THEN "w" ELSE "s" IN
  [ white     |-> IF role = "w" THEN ws ELSE white,
    black     |-> IF role = "b" THEN ws ELSE black,
    whiteMeta |-> IF role = "w" THEN [id |-> userId, username |-> username] ELSE whiteMeta,
    blackMeta |-> IF role = "b" THEN [id |-> userId, username |-> username] ELSE blackMeta,
    sockets   |-> [c \in DOMAIN sockets \cup {ws} |->
                     IF c = ws THEN [role |-> role]
                     ELSE sockets[c]],
    role      |-> role ]

\* Room.assignRole: the seats, identities and socket map after the call
\* a seat assignment that records the black seat-holder as a spectator
assignRole_BlackAsSpectator(ws, userId, username) ==
  LET role == IF white = None THEN "w" ELSE IF black = None THEN "b" ELSE "s" IN
  [ white     |-> IF role = "w" THEN ws ELSE white,
    black     |-> IF role = "b" THEN ws ELSE black,
    whiteMeta |-> IF role = "w" THEN [id |-> userId, username |-> username] ELSE whiteMeta,
    blackMeta |-> IF role = "b" THEN [id |-> userId, username |-> username] ELSE blackMeta,
    sockets   |-> [c \in DOMAIN sockets \cup {ws} |->
                     IF c = ws THEN [role |-> IF role = "w" THEN "w" ELSE "s"]
                     ELSE sockets[c]],
    role      |-> role ]

assignRole(ws, userId, username) ==
  LET role == IF white = None THEN "w" ELSE IF black = None THEN "b" ELSE "s" IN
  [ white     |-> IF role = "w" THEN ws ELSE white,
    black     |-> IF role = "b" THEN ws ELSE black,
    whiteMeta |-> IF role = "w" THEN [id |-> userId, username |-> username] ELSE whiteMeta,
    blackMeta |-> IF role = "b" THEN [id |-> userId, username |-> username] ELSE blackMeta,
    sockets   |-> [c \in DOMAIN sockets \cup {ws} |->
                     IF c = ws THEN [role |-> role]
                     ELSE sockets[c]],
    role      |-> role ]

Known(m) == m.id # None /\ m.username # ""

\* Room.maybeStart on the seats w, b with identities wm, bm:
\* whether it starts the game, and what it sends
\* a start whose opponent_info events follow the start_game events
maybeStart_InfoLast(s, w, b, wm, bm) ==
  IF s \/ w = None \/ b = None
  THEN [starts |-> FALSE, sends |-> <<>>]
  ELSE [starts |-> TRUE,
        sends |->
          send(w, [type |-> "start_game", color |-> "w"])
          \o send(b, [type |-> "start_game", color |-> "b"])
          \o (IF Known(wm) /\ Known(bm)
              THEN send(w, [type |-> "opponent_info", id |-> bm.id, username |-> bm.username])
                   \o send(b, [type |-> "opponent_info", id |-> wm.id, username |-> wm.username])
              ELSE <<>>)]

maybeStart(s, w, b, wm, bm) ==
  IF s \/ w = None \/ b = None
  THEN [starts |-> FALSE, sends |-> <<>>]
  ELSE [starts |-> TRUE,
        sends |->
          (IF Known(wm) /\ Known(bm)
           THEN send(w, [type |-> "opponent_info", id |-> bm.id, username |-> bm.username])
                \o send(b, [type |-> "opponent_info", id |-> wm.id, username |-> wm.username])
           ELSE <<>>)
          \o send(w, [type |-> "start_game", color |-> "w"])
          \o send(b, [type |-> "start_game", color |-> "b"])]

\* a waiting flag set for every seat-holder
waitingFlag_AnySeat(role, w, b) == role # "s"

\* the waiting flag of the role event: role !== "s" && !(white && black)
waitingFlag(role, w, b) == role # "s" /\ ~(w # None /\ b # None)

\* a join that never sends the position
stateSend_Never(server, f) == <<>>

\* the join sequence's `if (this.fen) this.send(server, {type: "state", ...})`
\* a state send that always carries the initial position
stateSend_StartPosition(server, f) == send(server, [type |-> "state", fen |-> "START"])

stateSend(server, f) ==
  IF f # NoFen THEN send(server, [type |-> "state", fen |-> f]) ELSE <<>>

\* Room.fetch: a websocket is accepted (auth is the verified token's user, or None)
Join(auth) ==
  /\ impl = "worker"
  /\ nextConn <= MaxConns
  /\ LET server == nextConn
         a == assignRole(server, auth, Username(auth))
         role == a.sockets[server].role
         waiting == waitingFlag(role, a.white, a.black)
         m == maybeStart(started, a.white, a.black, a.whiteMeta, a.blackMeta)
     IN /\ white' = a.white
        /\ black' = a.black
        /\ whiteMeta' = a.whiteMeta
        /\ blackMeta' = a.blackMeta
        /\ sockets' = a.sockets
        /\ started' = (started \/ m.starts)
        /\ out' = updateStats(a.sockets)
                  \o send(server, [type |-> "role", role |-> role, waiting |-> waiting])
                  \o stateSend(server, fen)
                  \o (IF role = "s" /\ Known(a.whiteMeta)
                      THEN send(server, [type |-> "player_info", color |-> "w",
                                         id |-> a.whiteMeta.id, username |-> a.whiteMeta.username])
                      ELSE <<>>)
                  \o (IF role = "s" /\ Known(a.blackMeta)
                      THEN send(server, [type |-> "player_info", color |-> "b",
                                         id |-> a.blackMeta.id, username |-> a.blackMeta.username])
                      ELSE <<>>)
                  \o m.sends
        /\ IF m.starts
           THEN persist(Snapshot(fen, TRUE, a.whiteMeta, a.blackMeta))
           ELSE UNCHANGED <<stored, pending>>
        /\ handlers' = [handlers EXCEPT ![server] = 2]
        /\ nextConn' = nextConn + 1
        /\ ev' = [kind |-> "join", conn |-> server]
  /\ UNCHANGED <<impl, fen, restarts, exceptRoom>>

\* the "move" branch of the message listener: what is broadcast, and to whom
moveBroadcast(server, from, to, promotion, f) ==
  broadcast(sockets, [type |-> "move", from |-> from, to |-> to,
                      promotion |-> promotion, fen |-> f], None)

\* message listener, msg.type = "move" (well-formed: from, to and fen are strings)
Move(server, f) ==
  /\ impl = "worker"
  /\ handlers[server] = 2
  /\ fen' = f
  /\ persist(Snapshot(f, started, whiteMeta, blackMeta))
  /\ out' = moveBroadcast(server, "e2", "e4", "q", f)
  /\ ev' = [kind |-> "move", conn |-> server, fen |-> f]
  /\ UNCHANGED <<impl, started, white, black, whiteMeta, blackMeta, sockets,
                 handlers, nextConn, restarts, exceptRoom>>

\* cleanup clearing the started flag every time it runs
cleanupStops_Always(hasMeta, role) == TRUE

\* cleanup clearing the started flag for the black seat-holder only
cleanupStops_BlackOnly(hasMeta, role) == hasMeta /\ role = "b"

\* whether cleanup clears the started flag, from the metadata it read
\* a cleanup that stops the game for any registered socket
cleanupStops_AnyMember(hasMeta, role) == hasMeta

cleanupStops(hasMeta, role) == hasMeta /\ role \in {"w", "b"}

\* cleanup: the close listener and the error listener of one websocket
\* (each may fire, so cleanup runs up to twice for a connection)
Cleanup(server) ==
  /\ impl = "worker"
  /\ handlers[server] > 0
  /\ LET hasMeta == server \in DOMAIN sockets
         role == IF hasMeta THEN sockets[server].role ELSE "none"
         socks == [c \in DOMAIN sockets \ {server} |-> sockets[c]]
         s == IF cleanupStops(hasMeta, role) THEN FALSE ELSE started
         w == IF white = server THEN None ELSE white
         b == IF black = server THEN None ELSE black
     IN /\ sockets' = socks
        /\ white' = w
        /\ black' = b
        /\ out' = updateStats(socks)
        /\ started' = s
        /\ persist(Snapshot(fen, s, whiteMeta, blackMeta))
  /\ handlers' = [handlers EXCEPT ![server] = @ - 1]
  /\ ev' = [kind |-> "cleanup", conn |-> server]
  /\ UNCHANGED <<impl, fen, whiteMeta, blackMeta, nextConn, restarts, exceptRoom>>

\* an issued storage.put completes
CompleteWrite ==
  /\ impl = "worker"
  /\ pending # <<>>
  /\ stored' = Head(pending)
  /\ pending' = Tail(pending)
  /\ out' = <<>>
  /\ ev' = [kind |-> "write_done", conn |-> None]
  /\ UNCHANGED <<impl, fen, started, white, black, whiteMeta, blackMeta, sockets,
                 handlers, nextConn, restarts, exceptRoom>>

\* a constructor that reads nothing back
rehydrate_Fresh(st) == Snapshot(NoFen, FALSE, NoMeta, NoMeta)

\* the constructor's rehydration: the fields of the stored snapshot, or the
\* field initialisers when nothing is stored
rehydrate(st) == IF st = NoStore THEN Snapshot(NoFen, FALSE, NoMeta, NoMeta) ELSE st

\* The Durable Object is restarted (eviction, deploy, crash): its memory and
\* its websockets are gone (the new incarnation numbers its websockets from 1
\* again), writes not yet completed are lost, and the constructor rehydrates
\* from storage.
Restart ==
  /\ impl = "worker"
  /\ restarts < MaxRestarts
  /\ restarts' = restarts + 1
  /\ nextConn' = 1
  /\ fen' = rehydrate(stored).fen
  /\ started' = rehydrate(stored).started
  /\ whiteMeta' = rehydrate(stored).whiteMeta
  /\ blackMeta' = rehydrate(stored).blackMeta
  /\ white' = None
  /\ black' = None
  /\ sockets' = << >>
  /\ pending' = <<>>
  /\ handlers' = [c \in Conns |-> 0]
  /\ out' = <<>>
  /\ ev' = [kind |-> "restart", conn |-> None]
  /\ UNCHANGED <<impl, stored, exceptRoom>>

InitRoom ==
  /\ fen = NoFen
  /\ started = FALSE
  /\ white = None
  /\ black = None
  /\ whiteMeta = NoMeta
  /\ blackMeta = NoMeta
  /\ sockets = << >>
  /\ stored = NoStore
  /\ pending = <<>>
  /\ handlers = [c \in Conns |-> 0]
  /\ nextConn = 1
  /\ restarts = 0
  /\ out = <<>>
  /\ ev = [kind |-> "init", conn |-> None]

\* ------------------------------------------------------- Node server rooms
RoomIds == {"R1"}
StartFen == "START"                         \* new Chess().fen()

\* the room created by the first join that names an unseen room id
NewRoom == [clients |-> {}, spectators |-> {}, white |-> None, black |-> None,
            whiteId |-> None, blackId |-> None,
            whiteUsername |-> "", blackUsername |-> "",
            started |-> FALSE, fen |-> StartFen]

\* wss.on('connection'): a websocket is accepted
NodeConnect ==
  /\ impl = "node"
  /\ nextConn <= MaxConns
  /\ handlers' = [handlers EXCEPT ![nextConn] = 1]
  /\ nextConn' = nextConn + 1
  /\ out' = <<>>
  /\ ev' = [kind |-> "connect", conn |-> nextConn]
  /\ UNCHANGED <<impl, restarts, nodeVars, exceptNode>>

\* the role the join branch gives, and the room after the seat assignment
nodeSeat(room, ws, userId, username) ==
  LET r0 == [room EXCEPT !.clients = @ \cup {ws}] IN
  IF r0.white = None
  THEN [role |-> "w",
        room |-> [r0 EXCEPT !.white = ws,
                            !.whiteId = IF userId # None THEN userId ELSE @,
                            !.whiteUsername = IF username # "" THEN username ELSE @]]
  ELSE IF r0.black = None
  THEN [role |-> "b",
        room |-> [r0 EXCEPT !.black = ws,
                            !.blackId = IF userId # None THEN userId ELSE @,
                            !.blackUsername = IF username # "" THEN username ELSE @]]
  ELSE [role |-> "s", room |-> [r0 EXCEPT !.spectators = @ \cup {ws}]]

\* the sends of the join branch once both seats are occupied (lines 484-520)
nodeStartSends(r, ws) ==
  (IF ws = r.white /\ r.blackId # None /\ r.blackUsername # ""
   THEN send(ws, [type |-> "opponent_info", id |-> r.blackId, username |-> r.blackUsername])
   ELSE IF ws = r.black /\ r.whiteId # None /\ r.whiteUsername # ""
   THEN send(ws, [type |-> "opponent_info", id |-> r.whiteId, username |-> r.whiteUsername])
   ELSE <<>>)
  \o (IF ws \in r.spectators /\ r.whiteId # None /\ r.whiteUsername # ""
      THEN send(ws, [type |-> "player_info", color |-> "w", id |-> r.whiteId, username |-> r.whiteUsername])
      ELSE <<>>)
  \o (IF ws \in r.spectators /\ r.blackId # None /\ r.blackUsername # ""
      THEN send(ws, [type |-> "player_info", color |-> "b", id |-> r.blackId, username |-> r.blackUsername])
      ELSE <<>>)
  \o (IF ~r.started
      THEN (IF r.whiteId # None /\ r.blackId # None /\ r.whiteUsername # "" /\ r.blackUsername # ""
            THEN send(r.white, [type |-> "opponent_info", id |-> r.blackId, username |-> r.blackUsername])
                 \o send(r.black, [type |-> "opponent_info", id |-> r.whiteId, username |-> r.whiteUsername])
            ELSE <<>>)
           \o send(r.white, [type |-> "start_game", color |-> "w"])
           \o send(r.black, [type |-> "start_game", color |-> "b"])
      ELSE <<>>)

\* message handler, msg.type = 'join'
NodeJoin(ws, roomId, userId) ==
  /\ impl = "node"
  /\ handlers[ws] = 1
  /\ LET room == IF roomId \in DOMAIN rooms THEN rooms[roomId] ELSE NewRoom
         a == nodeSeat(room, ws, userId, Username(userId))
         r == a.room
         both == r.white # None /\ r.black # None
         r2 == IF both THEN [r EXCEPT !.started = TRUE] ELSE r
     IN /\ rooms' = [id \in DOMAIN rooms \cup {roomId} |-> IF id = roomId THEN r2 ELSE rooms[id]]
        /\ out' = MapSeq(SeqOf(r.clients), [type |-> "stats", count |-> Cardinality(r.clients)])
                  \o send(ws, [type |-> "role", role |-> a.role,
                               waiting |-> waitingFlag(a.role, r.white, r.black)])
                  \o send(ws, [type |-> "state", fen |-> r.fen])
                  \o (IF both THEN nodeStartSends(r, ws) ELSE <<>>)
  /\ ev' = [kind |-> "join", conn |-> ws, room |-> roomId, userId |-> userId]
  /\ UNCHANGED <<impl, handlers, nextConn, restarts, exceptNode>>

\* what the close handler does to one room of which ws is a client
nodeLeave(room, ws) ==
  [room EXCEPT !.clients = @ \ {ws},
               !.white = IF @ = ws THEN None ELSE @,
               !.black = IF @ = ws THEN None ELSE @,
               !.spectators = @ \ {ws}]

RECURSIVE Flatten(_)
Flatten(ss) == IF ss = <<>> THEN <<>> ELSE Head(ss) \o Flatten(Tail(ss))

RoomOrder == <<"R1">>                       \* rooms.forEach visits in insertion order; a fixed one here

\* a close handler that leaves the queue as it is
ticketsWithout_KeepAll(q, ws) == q

\* the tickets of matchQueue that are not bound to ws (the splice loop)
ticketsWithout(q, ws) == SelectSeq(q, LAMBDA t : t.ws # ws)

\* userConnections after the close handler's first part: ws leaves the set of
\* the user it last authenticated as, and an emptied set is deleted
connectionsWithout(uc, userId, ws) ==
  IF userId = None THEN uc
  ELSE [u \in DOMAIN uc |-> IF u = userId THEN uc[u] \ {ws} ELSE uc[u]]

\* ws.on('close'): userConnections, matchQueue and rooms
NodeClose(ws) ==
  /\ impl = "node"
  /\ handlers[ws] = 1
  /\ handlers' = [handlers EXCEPT ![ws] = 0]
  /\ closing' = closing \ {ws}
  /\ userConnections' = connectionsWithout(userConnections, currentUserId[ws], ws)
  /\ matchQueue' = ticketsWithout(matchQueue, ws)
  /\ rooms' = [id \in DOMAIN rooms |->
                 IF ws \in rooms[id].clients THEN nodeLeave(rooms[id], ws) ELSE rooms[id]]
  /\ out' = Flatten([i \in 1..Len(RoomOrder) |->
               LET id == RoomOrder[i] IN
               IF id \in DOMAIN rooms /\ ws \in rooms[id].clients
               THEN MapSeq(SeqOf(rooms[id].clients \ {ws}),
                           [type |-> "stats", count |-> Cardinality(rooms[id].clients \ {ws})])
               ELSE <<>>])
  /\ ev' = [kind |-> "close", conn |-> ws,
            tickets |-> Len(matchQueue) - Len(ticketsWithout(matchQueue, ws))]
  /\ UNCHANGED <<impl, roomVars, nextConn, restarts, queue, mmSockets, settleVars,
                 hubSockets, currentUserId, invites, notifies, responds>>

InitNode == rooms = << >>

NodeRoomNext ==
  \/ NodeConnect
  \/ \E ws \in Conns, id \in RoomIds, u \in Users \cup {None} : NodeJoin(ws, id, u)
  \/ \E ws \in Conns : NodeClose(ws)

WorkerRoomNext ==
  \/ \E auth \in Users \cup {None} : Join(auth)
  \/ \E c \in Conns, f \in Positions : Move(c, f)
  \/ \E c \in Conns : Cleanup(c)
  \/ CompleteWrite
  \/ Restart

\* ------------------------------------------------------------ matchmaking
MintIds == {"X", "Y"}          \* room ids Math.random() may mint

\* a pairing that tells only the requester
matchFound_RequesterOnly(server, opponent, roomId) ==
  send(server, [type |-> "match_found", roomId |-> roomId])

\* the two match_found sends of a pairing
matchFound(server, opponent, roomId) ==
  send(server, [type |-> "match_found", roomId |-> roomId])
  \o send(opponent, [type |-> "match_found", roomId |-> roomId])

\* Matchmaking.fetch: a websocket with a valid token is accepted
MatchConnect(userId) ==
  /\ impl = "worker"
  /\ nextConn <= MaxConns
  /\ mmSockets' = [c \in DOMAIN mmSockets \cup {nextConn} |->
                     IF c = nextConn THEN userId ELSE mmSockets[c]]
  /\ handlers' = [handlers EXCEPT ![nextConn] = 2]
  /\ nextConn' = nextConn + 1
  /\ out' = <<>>
  /\ ev' = [kind |-> "connect", conn |-> nextConn]
  /\ UNCHANGED <<impl, restarts, queue, matchQueue, closing, exceptMatch>>

shifted_KeepHead(q) == q

\* what queue.shift() leaves in the queue
shifted(q) == IF q = <<>> THEN <<>> ELSE Tail(q)

\* Matchmaking message listener, msg.type = "find_match"
FindMatch(server) ==
  /\ impl = "worker"
  /\ handlers[server] = 2
  /\ LET q == SelectSeq(queue, LAMBDA x : x # server)
         opponent == IF q = <<>> THEN None ELSE Head(q)       \* queue.shift()
         rest == shifted(q)
     IN IF opponent # None /\ opponent \in DOMAIN mmSockets
        THEN \E roomId \in MintIds :
               /\ out' = matchFound(server, opponent, roomId)
               /\ queue' = rest
        ELSE /\ out' = <<>>
             /\ queue' = Append(rest, server)
  /\ ev' = [kind |-> "find_match", conn |-> server, userId |-> mmSockets[server]]
  /\ UNCHANGED <<impl, handlers, nextConn, restarts, mmSockets, matchQueue, closing, exceptMatch>>

\* Matchmaking cleanup: the close listener and the error listener
MatchCleanup(server) ==
  /\ impl = "worker"
  /\ handlers[server] > 0
  /\ handlers' = [handlers EXCEPT ![server] = @ - 1]
  /\ mmSockets' = [c \in DOMAIN mmSockets \ {server} |-> mmSockets[c]]
  /\ queue' = SelectSeq(queue, LAMBDA x : x # server)
  /\ out' = <<>>
  /\ ev' = [kind |-> "cleanup", conn |-> server,
            tickets |-> Len(queue) - Len(SelectSeq(queue, LAMBDA x : x # server))]
  /\ UNCHANGED <<impl, nextConn, restarts, matchQueue, closing, exceptMatch>>

\* the index of the first ticket of another user (findIndex), 0 when none
firstOther(q, userId) ==
  IF \E i \in 1..Len(q) : q[i].userId # userId
  THEN Min({i \in 1..Len(q) : q[i].userId # userId})
  ELSE 0

\* Node message handler, msg.type = 'find_match' (userId is a number)
NodeFindMatch(ws, userId) ==
  /\ impl = "node"
  /\ handlers[ws] = 1 /\ ws \notin closing
  /\ IF \E i \in 1..Len(matchQueue) : matchQueue[i].userId = userId
     THEN \* existing.ws = ws; return
          LET i == Min({k \in 1..Len(matchQueue) : matchQueue[k].userId = userId}) IN
          /\ matchQueue' = [matchQueue EXCEPT ![i].ws = ws]
          /\ out' = <<>>
     ELSE LET idx == firstOther(matchQueue, userId) IN
          IF idx # 0
          THEN LET opponent == matchQueue[idx]
                   spliced == [k \in 1..(Len(matchQueue) - 1) |->
                                 IF k < idx THEN matchQueue[k] ELSE matchQueue[k + 1]]
               IN IF opponent.ws \notin closing /\ handlers[opponent.ws] = 1
                  THEN \E roomId \in MintIds :
                         /\ out' = matchFound(ws, opponent.ws, roomId)
                         /\ matchQueue' = spliced
                  ELSE /\ out' = <<>>
                       /\ matchQueue' = Append(spliced, [ws |-> ws, userId |-> userId])
          ELSE /\ out' = <<>>
               /\ matchQueue' = Append(matchQueue, [ws |-> ws, userId |-> userId])
  /\ ev' = [kind |-> "find_match", conn |-> ws, userId |-> userId]
  /\ UNCHANGED <<impl, handlers, nextConn, restarts, queue, mmSockets, closing, rooms, exceptMatch>>

\* a Node websocket leaves the OPEN state (the peer went away); its 'close'
\* event is delivered later (NodeClose)
NodeBeginClose(ws) ==
  /\ impl = "node"
  /\ handlers[ws] = 1 /\ ws \notin closing
  /\ closing' = closing \cup {ws}
  /\ out' = <<>>
  /\ ev' = [kind |-> "closing", conn |-> ws]
  /\ UNCHANGED <<impl, handlers, nextConn, restarts, queue, mmSockets, matchQueue, rooms, exceptMatch>>

InitMatch ==
  /\ queue = <<>>
  /\ mmSockets = << >>
  /\ matchQueue = <<>>
  /\ closing = {}

MatchNext ==
  \/ \E u \in Users : MatchConnect(u)
  \/ \E c \in Conns : FindMatch(c)
  \/ \E c \in Conns : MatchCleanup(c)
  \/ NodeConnect
  \/ \E ws \in Conns, u \in Users : NodeFindMatch(ws, u)
  \/ \E ws \in Conns : NodeBeginClose(ws)
  \/ \E ws \in Conns : NodeClose(ws)

\* -------------------------------------------------------------- settlement
SettleRooms == {"R1", "R2"}
WinIncrement == 3                            \* rating added for a win

NewRow == [rating |-> 0, games_played |-> 0, wins |-> 0, losses |-> 0, draws |-> 0]

\* the inc calls of handleGameOver, in order: <<user, field, ratingDelta>>
workerIncs(whiteId, blackId, winnerColor) ==
  IF winnerColor = "w" THEN << <<whiteId, "wins", WinIncrement>>, <<blackId, "losses", 0>> >>
  ELSE IF winnerColor = "b" THEN << <<blackId, "wins", WinIncrement>>, <<whiteId, "losses", 0>> >>
  ELSE << <<whiteId, "draws", 0>>, <<blackId, "draws", 0>> >>

\* the updateUserRating calls of the Node game_over branch, in order
nodeIncs(whiteId, blackId, winnerColor) ==
  IF winnerColor = "w" THEN << <<whiteId, "wins", WinIncrement>>, <<blackId, "losses", 0>> >>
  ELSE IF winnerColor = "b" THEN << <<blackId, "wins", WinIncrement>>, <<whiteId, "losses", 0>> >>
  ELSE << <<whiteId, "draws", 0>>, <<blackId, "draws", 0>> >>

\* the store operations of one settlement, in program order.
\* worker: INSERT INTO games; then per inc: SELECT, UPDATE.
\* Node: per user: getUser (the rating), updateUserRating = getUser + update;
\*       then createGame.
Program(im, whiteId, blackId, winnerColor) ==
  IF im = "worker"
  THEN LET incs == workerIncs(whiteId, blackId, winnerColor) IN
       << [op |-> "insert"] >>
       \o Flatten([k \in 1..2 |->
             << [op |-> "select", user |-> incs[k][1]],
                [op |-> "update", user |-> incs[k][1], field |-> incs[k][2], delta |-> incs[k][3]] >>])
  ELSE LET incs == nodeIncs(whiteId, blackId, winnerColor) IN
       Flatten([k \in 1..2 |->
             << [op |-> "getRating", user |-> incs[k][1]],
                [op |-> "getExisting", user |-> incs[k][1]],
                [op |-> "setRating", user |-> incs[k][1], delta |-> incs[k][3]] >>])
       \o << [op |-> "insert"] >>

\* the row the worker's UPDATE writes, from the row its SELECT read
incRow(row, field, ratingDelta) ==
  [rating       |-> row.rating + ratingDelta,
   games_played |-> row.games_played + 1,
   wins         |-> row.wins + (IF field = "wins" THEN 1 ELSE 0),
   losses       |-> row.losses + (IF field = "losses" THEN 1 ELSE 0),
   draws        |-> row.draws + (IF field = "draws" THEN 1 ELSE 0)]

\* the row DbStorage.updateUserRating writes: the rating it was given, and
\* gamesPlayed from the row it read itself
setRatingRow(current, existing, newRating) ==
  [current EXCEPT !.rating = newRating, !.games_played = existing.games_played + 1]

\* a game_over message arrives for a room: the settlement starts when both
\* seat identities are known (its store operations run later, one at a time)
GameOver(room, winnerColor) ==
  /\ Len(tasks) < MaxGameOvers
  /\ seatIds[room].white # None /\ seatIds[room].black # None
  /\ tasks' = Append(tasks,
       [room |-> room, winner |-> winnerColor,
        prog |-> Program(impl, seatIds[room].white, seatIds[room].black, winnerColor),
        pc |-> 1, rating |-> 0, row |-> NewRow])
  /\ UNCHANGED <<impl, seatIds, db, games, exceptSettle>>

\* the next store operation of settlement t completes
SettleStep(t) ==
  /\ t \in 1..Len(tasks)
  /\ tasks[t].pc <= Len(tasks[t].prog)
  /\ LET task == tasks[t]
         o == task.prog[task.pc]
         next == [task EXCEPT !.pc = @ + 1]
     IN \/ /\ o.op = "insert"
           /\ games' = games + 1
           /\ tasks' = [tasks EXCEPT ![t] = next]
           /\ UNCHANGED db
        \/ /\ o.op \in {"select", "getExisting"}
           /\ tasks' = [tasks EXCEPT ![t] = [next EXCEPT !.row = db[o.user]]]
           /\ UNCHANGED <<db, games>>
        \/ /\ o.op = "getRating"
           /\ tasks' = [tasks EXCEPT ![t] = [next EXCEPT !.rating = db[o.user].rating]]
           /\ UNCHANGED <<db, games>>
        \/ /\ o.op = "update"
           /\ db' = [db EXCEPT ![o.user] = incRow(task.row, o.field, o.delta)]
           /\ tasks' = [tasks EXCEPT ![t] = next]
           /\ UNCHANGED games
        \/ /\ o.op = "setRating"
           /\ db' = [db EXCEPT ![o.user] = setRatingRow(@, task.row, task.rating + o.delta)]
           /\ tasks' = [tasks EXCEPT ![t] = next]
           /\ UNCHANGED games
  /\ out' = <<>>
  /\ ev' = [kind |-> "settle_step", conn |-> None]
  /\ UNCHANGED <<impl, seatIds, roomVars, nodeVars, matchVars, apiVars,
                 handlers, nextConn, restarts>>

InitSettle ==
  /\ seatIds = [r \in SettleRooms |-> [white |-> None, black |-> None]]
  /\ db = [u \in Users |-> NewRow]
  /\ games = 0
  /\ tasks = <<>>

\* the seats of the rooms when their games end: R1 is played by users 1 and
\* 2; R2 by the same two users with the colours swapped, or by user 1 against
\* an anonymous black seat-holder
Seatings ==
  { [r \in SettleRooms |-> IF r = "R1" THEN [white |-> 1, black |-> 2]
                                       ELSE [white |-> 2, black |-> 1]],
    [r \in SettleRooms |-> IF r = "R1" THEN [white |-> 1, black |-> 2]
                                       ELSE [white |-> 1, black |-> None]] }

InitSettleSeated ==
  /\ seatIds \in Seatings
  /\ db = [u \in Users |-> NewRow]
  /\ games = 0
  /\ tasks = <<>>

SettleNext ==
  \/ \E r \in SettleRooms, w \in {"w", "b", "none"} : GameOver(r, w)
  \/ \E t \in 1..MaxGameOvers : SettleStep(t)

\* ------------------------------------------------- relayed room messages
Undefined == "undefined"                    \* a field the message does not carry
Texts == {"hi"}                             \* msg.text
Senders == {"ann", Undefined}               \* msg.sender
Results == {"1-0"}                          \* msg.result
IsString(x) == x # Undefined                \* typeof x === "string"

\* the draw_respond broadcast leaving the sender out
drawRespondBroadcast_ExceptSender(socks, server, accepted) ==
  broadcast(socks, [type |-> "draw_respond", accepted |-> accepted], server)

\* the "draw_respond" branch of the Room message listener: what is broadcast
drawRespondBroadcast(socks, server, accepted) ==
  broadcast(socks, [type |-> "draw_respond", accepted |-> accepted], None)

\* the "game_over" branch of the Room message listener: what is broadcast
gameOverBroadcast(socks, server, result) ==
  broadcast(socks, [type |-> "game_over", result |-> result], None)

\* Room message listener, msg.type = "chat"
Chat(server, text, sender) ==
  /\ impl = "worker"
  /\ handlers[server] = 2
  /\ out' = IF IsString(text) /\ IsString(sender)
            THEN broadcast(sockets, [type |-> "chat", text |-> text, sender |-> sender], server)
            ELSE <<>>
  /\ ev' = [kind |-> "chat", conn |-> server, text |-> text, sender |-> sender]
  /\ UNCHANGED <<impl, roomVars, handlers, nextConn, restarts, exceptRoom>>

\* Room message listener, msg.type = "draw_request"
DrawRequest(server, sender) ==
  /\ impl = "worker"
  /\ handlers[server] = 2
  /\ out' = IF IsString(sender)
            THEN broadcast(sockets, [type |-> "draw_request", sender |-> sender], server)
            ELSE <<>>
  /\ ev' = [kind |-> "draw_request", conn |-> server, sender |-> sender]
  /\ UNCHANGED <<impl, roomVars, handlers, nextConn, restarts, exceptRoom>>

\* Room message listener, msg.type = "draw_respond"
DrawRespond(server, accepted) ==
  /\ impl = "worker"
  /\ handlers[server] = 2
  /\ out' = drawRespondBroadcast(sockets, server, accepted)
  /\ ev' = [kind |-> "draw_respond", conn |-> server, accepted |-> accepted]
  /\ UNCHANGED <<impl, roomVars, handlers, nextConn, restarts, exceptRoom>>

\* Room message listener, msg.type = "game_over": handleGameOver is called
\* (it runs up to its first await: with both seat identities known a
\* settlement is started) and the event is broadcast
RoomGameOver(server, result, winnerColor) ==
  /\ impl = "worker"
  /\ handlers[server] = 2
  /\ Len(tasks) < MaxGameOvers
  /\ tasks' = IF whiteMeta.id # None /\ blackMeta.id # None
              THEN Append(tasks,
                     [room |-> "R1", winner |-> winnerColor,
                      prog |-> Program("worker", whiteMeta.id, blackMeta.id, winnerColor),
                      pc |-> 1, rating |-> 0, row |-> NewRow])
              ELSE tasks
  /\ out' = gameOverBroadcast(sockets, server, result)
  /\ ev' = [kind |-> "game_over", conn |-> server, result |-> result]
  /\ UNCHANGED <<impl, roomVars, handlers, nextConn, restarts,
                 nodeVars, matchVars, apiVars, seatIds, db, games>>

\* the sends of a Node relay branch: to the clients of the room, `except` left out
nodeRelay(roomId, payload, except) ==
  IF roomId \in DOMAIN rooms
  THEN MapSeq(SeqOf(rooms[roomId].clients \ {except}), payload)
  ELSE <<>>

\* Node message handler, msg.type = 'chat'
NodeChat(ws, roomId, text, sender) ==
  /\ impl = "node"
  /\ handlers[ws] = 1
  /\ out' = nodeRelay(roomId, [type |-> "chat", text |-> text, sender |-> sender], ws)
  /\ ev' = [kind |-> "chat", conn |-> ws, room |-> roomId, text |-> text, sender |-> sender]
  /\ UNCHANGED <<impl, handlers, nextConn, restarts, nodeVars, exceptNode>>

\* Node message handler, msg.type = 'draw_request'
NodeDrawRequest(ws, roomId, sender) ==
  /\ impl = "node"
  /\ handlers[ws] = 1
  /\ out' = nodeRelay(roomId, [type |-> "draw_request", sender |-> sender], ws)
  /\ ev' = [kind |-> "draw_request", conn |-> ws, room |-> roomId, sender |-> sender]
  /\ UNCHANGED <<impl, handlers, nextConn, restarts, nodeVars, exceptNode>>

\* Node message handler, msg.type = 'draw_respond'
NodeDrawRespond(ws, roomId, accepted) ==
  /\ impl = "node"
  /\ handlers[ws] = 1
  /\ out' = nodeRelay(roomId, [type |-> "draw_respond", accepted |-> accepted], None)
  /\ ev' = [kind |-> "draw_respond", conn |-> ws, room |-> roomId, accepted |-> accepted]
  /\ UNCHANGED <<impl, handlers, nextConn, restarts, nodeVars, exceptNode>>

\* the position chess.js reports after a legal move (positions are opaque
\* tokens: a legal move leads from one to another)
nextFen(f) == IF f = "P1" THEN "P2" ELSE "P1"

\* Node message handler, msg.type = 'move' with move.from and move.to given;
\* legal is what room.game.move makes of it (null or a throw when illegal)
NodeMove(ws, roomId, legal) ==
  /\ impl = "node"
  /\ handlers[ws] = 1
  /\ IF roomId \in DOMAIN rooms /\ legal
     THEN LET f == nextFen(rooms[roomId].fen) IN
          /\ rooms' = [rooms EXCEPT ![roomId].fen = f]
          /\ out' = nodeRelay(roomId, [type |-> "move", from |-> "e2", to |-> "e4",
                                       promotion |-> "q", fen |-> f,
                                       senderId |-> currentUserId[ws]], ws)
     ELSE /\ UNCHANGED rooms
          /\ out' = <<>>
  /\ ev' = [kind |-> "move", conn |-> ws, room |-> roomId, legal |-> legal]
  /\ UNCHANGED <<impl, handlers, nextConn, restarts, exceptNode>>

\* a frame as the Room message listener receives it: json says whether
\* JSON.parse accepts the text, the other fields are those of the parsed
\* object (Undefined when absent or not a string)
NoFields ==
  [type |-> Undefined, from |-> Undefined, to |-> Undefined, fen |-> Undefined,
   text |-> Undefined, sender |-> Undefined]
Frames ==
  {[json |-> FALSE] @@ NoFields}
  \cup {[json |-> TRUE, type |-> t] @@ NoFields : t \in {Undefined, "ping"}}
  \cup {[json |-> TRUE, type |-> "move", from |-> a, to |-> b, fen |-> f] @@ NoFields :
          a \in {"e2", Undefined}, b \in {"e4", Undefined}, f \in {"P1", Undefined}}
  \cup {[json |-> TRUE, type |-> "chat", text |-> t, sender |-> s] @@ NoFields :
          t \in Texts \cup {Undefined}, s \in Senders}
  \cup {[json |-> TRUE, type |-> "draw_request", sender |-> s] @@ NoFields : s \in Senders}

moveFields_NoFen(m) == IsString(m.from) /\ IsString(m.to)

\* the typeof tests of the move branch
moveFields(m) == IsString(m.from) /\ IsString(m.to) /\ IsString(m.fen)

\* Room message listener as a whole, for a frame of Frames: JSON.parse (a throw
\* is caught), the msg.type test, and the move, chat and draw_request branches
Message(server, m) ==
  /\ impl = "worker"
  /\ handlers[server] = 2
  /\ IF m.json /\ m.type = "move" /\ moveFields(m)
     THEN /\ fen' = m.fen
          /\ persist(Snapshot(m.fen, started, whiteMeta, blackMeta))
          /\ out' = moveBroadcast(server, m.from, m.to, "q", m.fen)
     ELSE /\ UNCHANGED <<fen, stored, pending>>
          /\ out' = IF m.json /\ m.type = "chat" /\ IsString(m.text) /\ IsString(m.sender)
                    THEN broadcast(sockets, [type |-> "chat", text |-> m.text,
                                             sender |-> m.sender], server)
                    ELSE IF m.json /\ m.type = "draw_request" /\ IsString(m.sender)
                    THEN broadcast(sockets, [type |-> "draw_request",
                                             sender |-> m.sender], server)
                    ELSE <<>>
  /\ ev' = [kind |-> "message", conn |-> server, frame |-> m]
  /\ UNCHANGED <<impl, started, white, black, whiteMeta, blackMeta, sockets,
                 handlers, nextConn, restarts, exceptRoom>>

\* a broadcast whose loop ends at the first send that throws
broadcastTry_Abort(socks, payload, except, failing) ==
  LET s == SeqOf(DOMAIN socks \ {except})
      bad == {i \in 1..Len(s) : s[i] \in failing}
      n == IF bad = {} THEN Len(s) ELSE Min(bad) - 1
  IN MapSeq(SubSeq(s, 1, n), payload)

\* Room.broadcast when ws.send throws for the sockets of `failing`: each send
\* has its own try/catch, the result is the sends that went through
broadcastTry(socks, payload, except, failing) ==
  MapSeq(SelectSeq(SeqOf(DOMAIN socks \ {except}), LAMBDA c : c \notin failing), payload)

\* Room message listener, msg.type = "chat" with both strings, while ws.send
\* throws for the sockets of `failing`
ChatSendFails(server, text, sender, failing) ==
  /\ impl = "worker"
  /\ handlers[server] = 2
  /\ out' = broadcastTry(sockets, [type |-> "chat", text |-> text, sender |-> sender],
                         server, failing)
  /\ ev' = [kind |-> "chat_fail", conn |-> server, failing |-> failing]
  /\ UNCHANGED <<impl, roomVars, handlers, nextConn, restarts, exceptRoom>>

\* Node message handler, msg.type = 'game_over', up to its first await: with
\* both seat identities set the settlement starts and the broadcast waits
\* for its last store operation; otherwise the broadcast is sent at once
NodeGameOver(ws, roomId, result, winnerColor) ==
  /\ impl = "node"
  /\ handlers[ws] = 1
  /\ Len(tasks) < MaxNodeGameOvers
  /\ IF roomId \in DOMAIN rooms /\ rooms[roomId].whiteId # None /\ rooms[roomId].blackId # None
     THEN /\ tasks' = Append(tasks,
                 [room |-> roomId, winner |-> winnerColor,
                  prog |-> Program("node", rooms[roomId].whiteId, rooms[roomId].blackId,
                                   winnerColor)
                           \o << [op |-> "broadcast", except |-> ws, result |-> result] >>,
                  pc |-> 1, rating |-> 0, row |-> NewRow])
          /\ out' = <<>>
     ELSE /\ UNCHANGED tasks
          /\ out' = nodeRelay(roomId, [type |-> "game_over", result |-> result], ws)
  /\ ev' = [kind |-> "game_over", conn |-> ws, room |-> roomId, result |-> result]
  /\ UNCHANGED <<impl, handlers, nextConn, restarts, rooms, roomVars, matchVars,
                 apiVars, seatIds, db, games>>

\* the rest of the Node game_over handler after createGame: the broadcast to
\* the room's clients except the sender
NodeGameOverBroadcast(t) ==
  /\ impl = "node"
  /\ t \in 1..Len(tasks)
  /\ tasks[t].pc <= Len(tasks[t].prog)
  /\ tasks[t].prog[tasks[t].pc].op = "broadcast"
  /\ LET o == tasks[t].prog[tasks[t].pc] IN
     /\ out' = nodeRelay(tasks[t].room, [type |-> "game_over", result |-> o.result], o.except)
     /\ ev' = [kind |-> "game_over_sent", conn |-> o.except, room |-> tasks[t].room]
  /\ tasks' = [tasks EXCEPT ![t].pc = @ + 1]
  /\ UNCHANGED <<impl, handlers, nextConn, restarts, rooms, roomVars, matchVars,
                 apiVars, seatIds, db, games>>

WorkerRelayNext ==
  \/ \E c \in Conns, t \in Texts, s \in Senders : Chat(c, t, s)
  \/ \E c \in Conns, s \in Senders : DrawRequest(c, s)
  \/ \E c \in Conns, a \in BOOLEAN : DrawRespond(c, a)

NodeRelayNext ==
  \/ \E ws \in Conns, id \in RoomIds, t \in Texts, s \in Senders : NodeChat(ws, id, t, s)
  \/ \E ws \in Conns, id \in RoomIds, s \in Senders : NodeDrawRequest(ws, id, s)
  \/ \E ws \in Conns, id \in RoomIds, a \in BOOLEAN : NodeDrawRespond(ws, id, a)

NodeMoveNext ==
  \E ws \in Conns, id \in RoomIds, legal \in BOOLEAN : NodeMove(ws, id, legal)

\* ------------------------------------------------------------------ invites
InviteRoom == "R1"                           \* body.roomId
NoRow == [absent |-> TRUE]

\* a notification that reaches every registered websocket
hubNotify_All(socks, toUserId, payload) ==
  MapSeq(SeqOf(DOMAIN socks), payload)

\* Hub /notify: the new_invite sends, to the websockets registered for toUserId
hubNotify(socks, toUserId, payload) ==
  MapSeq(SeqOf({ws \in DOMAIN socks : socks[ws] = toUserId}), payload)

\* Hub.fetch: a websocket with a valid token is registered
HubConnect(userId) ==
  /\ impl = "worker"
  /\ nextConn <= MaxConns
  /\ hubSockets' = [c \in DOMAIN hubSockets \cup {nextConn} |->
                      IF c = nextConn THEN userId ELSE hubSockets[c]]
  /\ handlers' = [handlers EXCEPT ![nextConn] = 2]
  /\ nextConn' = nextConn + 1
  /\ out' = <<>>
  /\ ev' = [kind |-> "connect", conn |-> nextConn]
  /\ UNCHANGED <<impl, restarts, userConnections, currentUserId, invites, notifies,
                 responds, exceptApi>>

\* Hub: the close listener and the error listener of one websocket
HubCleanup(server) ==
  /\ impl = "worker"
  /\ handlers[server] > 0
  /\ handlers' = [handlers EXCEPT ![server] = @ - 1]
  /\ hubSockets' = [c \in DOMAIN hubSockets \ {server} |-> hubSockets[c]]
  /\ out' = <<>>
  /\ ev' = [kind |-> "cleanup", conn |-> server]
  /\ UNCHANGED <<impl, nextConn, restarts, userConnections, currentUserId, invites,
                 notifies, responds, exceptApi>>

\* the invite row both deployments create
NewInvite(fromUserId, toUserId) ==
  [to |-> toUserId, from |-> fromUserId, roomId |-> InviteRoom,
   status |-> "pending", present |-> TRUE]

\* worker POST /api/invite: the row is inserted and the /notify request is
\* sent to the Hub (which handles it later)
Invite(fromUserId, toUserId) ==
  /\ impl = "worker"
  /\ Len(invites) < MaxInvites
  /\ invites' = Append(invites, NewInvite(fromUserId, toUserId))
  /\ notifies' = Append(notifies, [toUserId |-> toUserId, invite |-> Len(invites) + 1])
  /\ out' = <<>>
  /\ ev' = [kind |-> "invite", conn |-> None]
  /\ UNCHANGED <<impl, handlers, nextConn, restarts, hubSockets, userConnections,
                 currentUserId, responds, exceptApi>>

\* Hub.fetch, POST /notify
HubNotify ==
  /\ impl = "worker"
  /\ notifies # <<>>
  /\ LET n == Head(notifies) IN
     /\ out' = hubNotify(hubSockets, n.toUserId, [type |-> "new_invite", invite |-> n.invite])
     /\ ev' = [kind |-> "notify", conn |-> None, toUserId |-> n.toUserId, status |-> 200]
  /\ notifies' = Tail(notifies)
  /\ UNCHANGED <<impl, handlers, nextConn, restarts, hubSockets, userConnections,
                 currentUserId, invites, responds, exceptApi>>

\* Node message handler, msg.type = 'auth'
NodeAuth(ws, userId) ==
  /\ impl = "node"
  /\ handlers[ws] = 1
  /\ currentUserId' = [currentUserId EXCEPT ![ws] = userId]
  /\ userConnections' = [userConnections EXCEPT ![userId] = @ \cup {ws}]
  /\ out' = <<>>
  /\ ev' = [kind |-> "auth", conn |-> ws]
  /\ UNCHANGED <<impl, handlers, nextConn, restarts, hubSockets, invites, notifies,
                 responds, exceptApi>>

\* Node POST /api/invite: the invite is stored and pushed to the open
\* websockets of the target user
NodeInvite(fromUserId, toUserId) ==
  /\ impl = "node"
  /\ Len(invites) < MaxInvites
  /\ invites' = Append(invites, NewInvite(fromUserId, toUserId))
  /\ out' = MapSeq(SeqOf({ws \in userConnections[toUserId] :
                             handlers[ws] = 1 /\ ws \notin closing}),
                   [type |-> "new_invite", invite |-> Len(invites) + 1])
  /\ ev' = [kind |-> "invite", conn |-> None]
  /\ UNCHANGED <<impl, handlers, nextConn, restarts, hubSockets, userConnections,
                 currentUserId, notifies, responds, exceptApi>>

\* the status a respond action stands for
StatusOf(action) == IF action = "accept" THEN "accepted" ELSE "declined"

\* a lookup by id alone, whoever the invite is addressed to
inviteRow_AnyAddressee(inv, inviteId, userId) ==
  IF inviteId \in 1..Len(inv) /\ inv[inviteId].present
  THEN inv[inviteId] ELSE NoRow

\* a lookup that also asks for the invite to be pending
inviteRow_PendingOnly(inv, inviteId, userId) ==
  IF inviteId \in 1..Len(inv) /\ inv[inviteId].present /\ inv[inviteId].to = userId
     /\ inv[inviteId].status = "pending"
  THEN inv[inviteId] ELSE NoRow

\* the row an invite lookup by id and addressee finds
inviteRow(inv, inviteId, userId) ==
  IF inviteId \in 1..Len(inv) /\ inv[inviteId].present /\ inv[inviteId].to = userId
  THEN inv[inviteId] ELSE NoRow

\* worker POST /api/invite/:id/respond, up to the completion of its SELECT:
\* 404 when no row of this id is addressed to the caller
Respond(userId, inviteId, action) ==
  /\ impl = "worker"
  /\ Len(responds) < MaxResponds
  /\ LET row == inviteRow(invites, inviteId, userId) IN
     responds' = Append(responds,
       IF row = NoRow
       THEN [user |-> userId, invite |-> inviteId, action |-> action,
             pc |-> "done", code |-> 404, status |-> "", roomId |-> ""]
       ELSE [user |-> userId, invite |-> inviteId, action |-> action,
             pc |-> "update", code |-> 0, status |-> "", roomId |-> row.roomId])
  /\ out' = <<>>
  /\ ev' = [kind |-> "respond", conn |-> None]
  /\ UNCHANGED <<impl, handlers, nextConn, restarts, hubSockets, userConnections,
                 currentUserId, invites, notifies, exceptApi>>

\* the next statement of respond call r completes: the UPDATE of the status,
\* then the DELETE, after which the call returns 200 with status and room id
RespondStep(r) ==
  /\ impl = "worker"
  /\ r \in 1..Len(responds)
  /\ LET call == responds[r] IN
     \/ /\ call.pc = "update"
        /\ invites' = [invites EXCEPT ![call.invite].status =
                         IF invites[call.invite].present THEN StatusOf(call.action) ELSE @]
        /\ responds' = [responds EXCEPT ![r].pc = "delete"]
     \/ /\ call.pc = "delete"
        /\ invites' = [invites EXCEPT ![call.invite].present = FALSE]
        /\ responds' = [responds EXCEPT ![r] =
                          [call EXCEPT !.pc = "done", !.code = 200,
                                       !.status = StatusOf(call.action)]]
  /\ out' = <<>>
  /\ ev' = [kind |-> "respond_step", conn |-> None]
  /\ UNCHANGED <<impl, handlers, nextConn, restarts, hubSockets, userConnections,
                 currentUserId, notifies, exceptApi>>

\* Node POST /api/invite/:id/respond: found in the caller's list, marked,
\* removed from the list and answered in one turn of the event loop
NodeRespond(userId, inviteId, action) ==
  /\ impl = "node"
  /\ Len(responds) < MaxResponds
  /\ LET row == inviteRow(invites, inviteId, userId) IN
     IF row = NoRow
     THEN /\ responds' = Append(responds,
               [user |-> userId, invite |-> inviteId, action |-> action,
                pc |-> "done", code |-> 404, status |-> "", roomId |-> ""])
          /\ UNCHANGED invites
     ELSE /\ invites' = [invites EXCEPT ![inviteId].status = StatusOf(action),
                                        ![inviteId].present = FALSE]
          /\ responds' = Append(responds,
               [user |-> userId, invite |-> inviteId, action |-> action,
                pc |-> "done", code |-> 200, status |-> StatusOf(action),
                roomId |-> row.roomId])
  /\ out' = <<>>
  /\ ev' = [kind |-> "respond", conn |-> None]
  /\ UNCHANGED <<impl, handlers, nextConn, restarts, hubSockets, userConnections,
                 currentUserId, notifies, exceptApi>>

InitApi ==
  /\ hubSockets = << >>
  /\ userConnections = [u \in Users |-> {}]
  /\ currentUserId = [c \in Conns |-> None]
  /\ invites = <<>>
  /\ notifies = <<>>
  /\ responds = <<>>

\* the worker: creating invites and notifying their addressees through the Hub
NotifyNext ==
  \/ \E u \in Users : HubConnect(u)
  \/ \E c \in Conns : HubCleanup(c)
  \/ \E from \in Users : \E to \in Users \ {from} : Invite(from, to)
  \/ HubNotify

\* creating invites and responding to them
RespondNext ==
  \/ \E from \in Users : \E to \in Users \ {from} : Invite(from, to)
  \/ HubNotify
  \/ \E u \in Users, i \in 1..MaxInvites, a \in {"accept", "decline"} : Respond(u, i, a)
  \/ \E r \in 1..MaxResponds : RespondStep(r)
  \/ \E from \in Users : \E to \in Users \ {from} : NodeInvite(from, to)
  \/ \E u \in Users, i \in 1..MaxInvites, a \in {"accept", "decline"} : NodeRespond(u, i, a)

\* the Node server: websockets that authenticate and close, and the invites
\* pushed to them
NodeNotifyNext ==
  \/ NodeConnect
  \/ \E ws \in Conns, u \in Users : NodeAuth(ws, u)
  \/ \E ws \in Conns : NodeBeginClose(ws)
  \/ \E ws \in Conns : NodeClose(ws)
  \/ \E from \in Users : \E to \in Users \ {from} : NodeInvite(from, to)

\* --------------------------------------------------------- specifications
InitAll == InitRoom /\ InitNode /\ InitMatch /\ InitSettle /\ InitApi

\* the room coordinator: the worker Room, or the Node rooms table
SpecRoomInit == impl \in {"worker", "node"} /\ InitAll
SpecRoomNext == WorkerRoomNext \/ NodeRoomNext
SpecRoom == SpecRoomInit /\ [][SpecRoomNext]_vars

\* matchmaking: the worker Matchmaking object, or the Node matchQueue
SpecMatchInit == impl \in {"worker", "node"} /\ InitAll
SpecMatch == SpecMatchInit /\ [][MatchNext]_vars

\* settlement: finished games of rooms whose seats are taken, settled
\* against the shared store
SpecSettleInit ==
  /\ impl \in {"worker", "node"}
  /\ InitRoom /\ InitNode /\ InitMatch /\ InitSettleSeated /\ InitApi
SpecSettle == SpecSettleInit /\ [][SettleNext]_vars

\* the messages a room relays among the connections that joined it (one
\* incarnation of the worker Room, the position left as it is)
SpecRelayInit == impl \in {"worker", "node"} /\ InitAll
SpecRelayNext ==
  \/ \E auth \in Users \cup {None} : Join(auth)
  \/ \E c \in Conns : Cleanup(c)
  \/ CompleteWrite
  \/ WorkerRelayNext
  \/ NodeRoomNext
  \/ NodeRelayNext
SpecRelay == SpecRelayInit /\ [][SpecRelayNext]_vars

\* the end of a game in the worker Room: the connections of one incarnation,
\* their game_over events and the settlements these start
SpecGameOverInit == impl = "worker" /\ InitAll
SpecGameOverNext ==
  \/ \E auth \in Users \cup {None} : Join(auth)
  \/ \E c \in Conns : Cleanup(c)
  \/ CompleteWrite
  \/ \E c \in Conns, r \in Results, w \in {"w", "none"} : RoomGameOver(c, r, w)
  \/ \E t \in 1..MaxGameOvers : SettleStep(t)
SpecGameOver == SpecGameOverInit /\ [][SpecGameOverNext]_vars

\* invite notifications of the worker: its API and its Hub
SpecNotifyInit == impl = "worker" /\ InitAll
SpecNotify == SpecNotifyInit /\ [][NotifyNext]_vars

\* invite notifications of the Node server
\* the worker Room with chat broadcasts some of whose sends throw
SpecSendFailsInit == impl = "worker" /\ InitAll
SpecSendFailsNext ==
  \/ \E auth \in Users \cup {None} : Join(auth)
  \/ \E c \in Conns : Cleanup(c)
  \/ CompleteWrite
  \/ \E c \in Conns, f \in Conns : ChatSendFails(c, "hi", "ann", {f})
SpecSendFails == SpecSendFailsInit /\ [][SpecSendFailsNext]_vars

\* the worker Room of anonymous players with moves and every relayed event
SpecPositionInit == impl = "worker" /\ InitAll
SpecPositionNext ==
  \/ Join(None)
  \/ \E c \in Conns : Cleanup(c)
  \/ CompleteWrite
  \/ \E c \in Conns, f \in Positions : Move(c, f)
  \/ WorkerRelayNext
  \/ \E c \in Conns, r \in Results : RoomGameOver(c, r, "w")
SpecPosition == SpecPositionInit /\ [][SpecPositionNext]_vars

\* the Node server's rooms with game_over events and their settlements
SpecNodeGameOverInit == impl = "node" /\ InitAll
SpecNodeGameOverNext ==
  \/ NodeRoomNext
  \/ \E ws \in Conns, id \in RoomIds, r \in Results : NodeGameOver(ws, id, r, "w")
  \/ \E t \in 1..MaxNodeGameOvers : SettleStep(t)
  \/ \E t \in 1..MaxNodeGameOvers : NodeGameOverBroadcast(t)
SpecNodeGameOver == SpecNodeGameOverInit /\ [][SpecNodeGameOverNext]_vars

\* the worker Room with whole frames, malformed ones included
SpecMessageInit == impl = "worker" /\ InitAll
SpecMessageNext ==
  \/ \E auth \in {1, None} : Join(auth)
  \/ \E c \in Conns : Cleanup(c)
  \/ CompleteWrite
  \/ \E c \in Conns, m \in Frames : Message(c, m)
SpecMessage == SpecMessageInit /\ [][SpecMessageNext]_vars

\* the Node server's rooms with every event a connection can send about one
SpecNodeRelayInit == impl = "node" /\ InitAll
SpecNodeRelayNext == NodeRoomNext \/ NodeRelayNext \/ NodeMoveNext
SpecNodeRelay == SpecNodeRelayInit /\ [][SpecNodeRelayNext]_vars

SpecNodeNotifyInit == impl = "node" /\ InitAll
SpecNodeNotify == SpecNodeNotifyInit /\ [][NodeNotifyNext]_vars

\* invites and the responses to them: the worker API over the invites table,
\* or the Node routes over the invites map
SpecRespondInit == impl \in {"worker", "node"} /\ InitAll
SpecRespond == SpecRespondInit /\ [][RespondNext]_vars

\* ------------------------------------------------------------------ claims
BothSeated == white # None /\ black # None
StartGameTo(o, c, color) ==
  { i \in 1..Len(o) : o[i].to = c /\ o[i].msg.type = "start_game" /\ o[i].msg.color = color }
StartGames(o) == { i \in 1..Len(o) : o[i].msg.type = "start_game" }
RoleSentTo(o, c) ==
  { o[i].msg.role : i \in { j \in 1..Len(o) : o[j].to = c /\ o[j].msg.type = "role" } }

\* C1: in the worker Room, a move sent by connection C is delivered once to
\* every other connection of the room and never back to C.
C1_MoveNotEchoed ==
  (impl = "worker" /\ ev.kind = "move") =>
    /\ \A c \in DOMAIN sockets \ {ev.conn} : Cardinality(SendsTo(c, "move")) = 1
    /\ SendsTo(ev.conn, "move") = {}

\* C3: in the worker Room, whatever joins and cleanups (close and error of one
\* connection included) have run, at most one connection has the white seat,
\* at most one the black seat, and no connection has both.
C3_SeatsExclusive ==
  impl = "worker" =>
    /\ Cardinality({c \in DOMAIN sockets : sockets[c].role = "w"}) <= 1
    /\ Cardinality({c \in DOMAIN sockets : sockets[c].role = "b"}) <= 1
    /\ \A c \in DOMAIN sockets : sockets[c].role = "w" => white = c
    /\ \A c \in DOMAIN sockets : sockets[c].role = "b" => black = c
    /\ white # None => white # black

\* a connection's close and error listeners have both run, and both seats are
\* occupied again
C3_Witness ==
  /\ impl = "worker"
  /\ ev.kind = "cleanup" /\ handlers[ev.conn] = 0
  /\ BothSeated

\* C4: in the Node rooms table no connection is at once a seat-holder and a
\* spectator of a room, and none holds both seats of a room.
C4_NodeSeatsDisjoint ==
  impl = "node" =>
    \A id \in DOMAIN rooms :
      /\ rooms[id].white # None => rooms[id].white \notin rooms[id].spectators
      /\ rooms[id].black # None => rooms[id].black \notin rooms[id].spectators
      /\ rooms[id].white # None => rooms[id].white # rooms[id].black

\* C5: a join is given white when the white seat is vacant, else black when
\* the black seat is vacant, else spectator (worker Room and Node rooms).
C5_RoleBySeatVacancy ==
  [][ /\ (impl = "worker" /\ ev'.kind = "join") =>
           LET expected == IF white = None THEN "w" ELSE IF black = None THEN "b" ELSE "s" IN
           /\ RoleSentTo(out', ev'.conn) = {expected}
           /\ sockets'[ev'.conn].role = expected
           /\ (expected = "w") <=> (white' = ev'.conn)
           /\ (expected = "b") <=> (black' = ev'.conn)
      /\ (impl = "node" /\ ev'.kind = "join") =>
           LET room == IF ev'.room \in DOMAIN rooms THEN rooms[ev'.room] ELSE NewRoom
               expected == IF room.white = None THEN "w"
                           ELSE IF room.black = None THEN "b" ELSE "s"
           IN /\ RoleSentTo(out', ev'.conn) = {expected}
              /\ expected = "w" => rooms'[ev'.room].white = ev'.conn
              /\ expected = "b" => rooms'[ev'.room].black = ev'.conn
              /\ expected = "s" => ev'.conn \in rooms'[ev'.room].spectators
    ]_vars

\* a third connection has joined the worker Room as a spectator
C5_Witness ==
  /\ impl = "worker" /\ ev.kind = "join"
  /\ BothSeated /\ sockets[ev.conn].role = "s"
  /\ RoleSentTo(out, ev.conn) = {"s"}

\* C6: in the worker Room, each time both seats become occupied exactly one
\* start_game goes to the white seat-holder (color w) and one to the black
\* (color b), and no start_game is sent by any other step.
C6_StartOncePerFill ==
  [][ impl = "worker" =>
        IF ~BothSeated /\ white' # None /\ black' # None
        THEN /\ Cardinality(StartGames(out')) = 2
             /\ Cardinality(StartGameTo(out', white', "w")) = 1
             /\ Cardinality(StartGameTo(out', black', "b")) = 1
        ELSE StartGames(out') = {}
    ]_vars

\* C7: in the worker Room, when the white seat-holder's connection closes in a
\* started game the white seat is vacated, started is cleared and black keeps
\* its seat; the connection that joins next is white and start_game goes to
\* both seat-holders again.
C7_WhiteLeavesAndIsReplaced ==
  [][ impl = "worker" =>
        /\ (started /\ BothSeated /\ ev'.kind = "cleanup" /\ ev'.conn = white) =>
              (white' = None /\ ~started' /\ black' = black)
        /\ (white = None /\ black # None /\ ~started /\ ev'.kind = "join") =>
              /\ white' = ev'.conn /\ black' = black /\ started'
              /\ Cardinality(StartGames(out')) = 2
              /\ Cardinality(StartGameTo(out', white', "w")) = 1
              /\ Cardinality(StartGameTo(out', black', "b")) = 1
    ]_vars

\* a joiner has taken the white seat while black was seated, and the game has
\* started (the first joiner of a room is white: this one replaces a white
\* seat-holder that left)
C7_Witness ==
  /\ impl = "worker" /\ ev.kind = "join"
  /\ BothSeated /\ white = ev.conn
  /\ started
  /\ StartGameTo(out, white, "w") # {} /\ StartGameTo(out, black, "b") # {}

\* C8: in the Node rooms table, a seat-holder's close in a started room
\* clears the started flag.
C8_NodeCloseClearsStarted ==
  [][ (impl = "node" /\ ev'.kind = "close") =>
        \A id \in DOMAIN rooms :
          (rooms[id].started /\ ev'.conn \in {rooms[id].white, rooms[id].black})
            => ~rooms'[id].started
    ]_vars

\* C9: two find_match requests of distinct identities on an otherwise empty
\* queue pair up: the first request sends nothing, the second sends exactly one
\* match_found to each of the two connections, both with the same room id;
\* nothing but a find_match sends a match_found.
MatchFoundTo(o, c) == { o[i].msg.roomId : i \in { j \in 1..Len(o) : o[j].to = c /\ o[j].msg.type = "match_found" } }
C9_PairOfRequests ==
  [][ /\ ev'.kind # "find_match" => out' = <<>>
      /\ (impl = "worker" /\ ev'.kind = "find_match") =>
           /\ queue = <<>> => (out' = <<>> /\ queue' = <<ev'.conn>>)
           /\ (Len(queue) = 1 /\ queue[1] # ev'.conn
               /\ mmSockets[queue[1]] # mmSockets[ev'.conn]) =>
                 /\ Len(out') = 2
                 /\ \E r \in MintIds : /\ MatchFoundTo(out', ev'.conn) = {r}
                                       /\ MatchFoundTo(out', queue[1]) = {r}
                 /\ queue' = <<>>
      /\ (impl = "node" /\ ev'.kind = "find_match") =>
           /\ matchQueue = <<>> =>
                (out' = <<>> /\ matchQueue' = <<[ws |-> ev'.conn, userId |-> ev'.userId]>>)
           /\ (Len(matchQueue) = 1 /\ matchQueue[1].ws # ev'.conn
               /\ matchQueue[1].userId # ev'.userId
               /\ matchQueue[1].ws \notin closing) =>
                 /\ Len(out') = 2
                 /\ \E r \in MintIds : /\ MatchFoundTo(out', ev'.conn) = {r}
                                       /\ MatchFoundTo(out', matchQueue[1].ws) = {r}
                 /\ matchQueue' = <<>>
    ]_vars

\* a second request has just been paired with the waiting one
C9_Witness ==
  /\ ev.kind = "find_match"
  /\ Len(out) = 2 /\ out[1].to # out[2].to
  /\ out[1].msg.roomId = out[2].msg.roomId
  /\ queue = <<>> /\ matchQueue = <<>>

AllSettled == \A t \in 1..Len(tasks) : tasks[t].pc > Len(tasks[t].prog)
\* the seat (user, task) pairs that name user u
SeatsOf(u) ==
  { <<t, c>> \in (1..Len(tasks)) \X {"white", "black"} : seatIds[tasks[t].room][c] = u }
WinsOf(u) ==
  { <<t, c>> \in SeatsOf(u) : (c = "white" /\ tasks[t].winner = "w")
                              \/ (c = "black" /\ tasks[t].winner = "b") }

\* C2: two game_over events for the same game leave every player's record as
\* one game_over does: games played up by one per seat, one rating increment.
C2_SettlementIdempotent ==
  (impl = "worker" /\ Len(tasks) = 2 /\ AllSettled
   /\ tasks[1].room = tasks[2].room /\ tasks[1].winner = tasks[2].winner) =>
    LET r == tasks[1].room
        incs == workerIncs(seatIds[r].white, seatIds[r].black, tasks[1].winner)
        once == [u \in Users |->
                   LET a == IF incs[1][1] = u THEN incRow(NewRow, incs[1][2], incs[1][3]) ELSE NewRow
                   IN IF incs[2][1] = u THEN incRow(a, incs[2][2], incs[2][3]) ELSE a]
    IN db = once /\ games = 1

\* C10: settlements of two different rooms that share a user both take effect
\* on the user's record, however their store operations interleave.
C10_NoLostUpdate ==
  (Len(tasks) = 2 /\ AllSettled /\ tasks[1].room # tasks[2].room) =>
    \A u \in Users :
      /\ db[u].games_played = Cardinality(SeatsOf(u))
      /\ db[u].rating = WinIncrement * Cardinality(WinsOf(u))

\* the field of wins/losses/draws a seat's player is credited with
ResultField(c, winner) ==
  IF winner = "none" THEN "draws"
  ELSE IF (c = "white" /\ winner = "w") \/ (c = "black" /\ winner = "b") THEN "wins"
  ELSE "losses"

\* C11: one settlement adds the increment (3) to the winner's rating and
\* nothing to the loser's (nothing to either on a draw), adds one to both
\* players' games played, and adds one to exactly one of wins / losses / draws
\* of each player.
C11_SingleSettlement ==
  (Len(tasks) = 1 /\ AllSettled) =>
    \A c \in {"white", "black"} :
      LET u == seatIds[tasks[1].room][c]
          f == ResultField(c, tasks[1].winner)
      IN /\ db[u].rating = (IF f = "wins" THEN WinIncrement ELSE 0)
         /\ db[u].games_played = 1
         /\ db[u].wins = (IF f = "wins" THEN 1 ELSE 0)
         /\ db[u].losses = (IF f = "losses" THEN 1 ELSE 0)
         /\ db[u].draws = (IF f = "draws" THEN 1 ELSE 0)

\* the same, of the worker alone
C11_WorkerOnly == impl = "worker" => C11_SingleSettlement

\* the positions of o that send a message of the type to connection c
SentTo(o, c, type) == { i \in 1..Len(o) : o[i].to = c /\ o[i].msg.type = type }

\* C12: in the worker Room, a game_over event of connection C goes once to
\* every other connection of the room and not to C, and starts exactly one
\* settlement when both seat identities are known.
C12_GameOverRelayedSettledOnce ==
  [][ (impl = "worker" /\ ev'.kind = "game_over") =>
        /\ \A c \in DOMAIN sockets \ {ev'.conn} :
             Cardinality(SentTo(out', c, "game_over")) = 1
        /\ SentTo(out', ev'.conn, "game_over") = {}
        /\ (whiteMeta.id # None /\ blackMeta.id # None) => Len(tasks') = Len(tasks) + 1
    ]_vars

\* the positions the state events of o carry to connection c
StateSentTo(o, c) == { o[i].msg.fen : i \in SentTo(o, c, "state") }

\* what a joiner of the worker Room is sent of the position in memory
JoinerGetsPosition ==
  (ev'.kind = "join") =>
     IF fen = NoFen
     THEN SentTo(out', ev'.conn, "state") = {}
     ELSE /\ Cardinality(SentTo(out', ev'.conn, "state")) = 1
          /\ StateSentTo(out', ev'.conn) = {fen}

InMemory == Snapshot(fen, started, whiteMeta, blackMeta)

\* C16: in the worker Room every change of the position, the started flag or
\* a seat identity is followed by a write of the new snapshot: whenever no
\* issued write is outstanding, the stored snapshot equals the one in memory
\* (nothing is stored only while memory still holds the initial snapshot).
C16_StoredFollowsMemory ==
  (impl = "worker" /\ pending = <<>>) =>
    IF stored = NoStore
    THEN InMemory = Snapshot(NoFen, FALSE, NoMeta, NoMeta)
    ELSE stored = InMemory

\* the connections of the tickets identity u has in the matchmaking queue
\* (a ticket of the worker's queue is a websocket: its identity is the one
\* registered for the websocket)
WorkerTickets(q, socks, u) ==
  { i \in 1..Len(q) : q[i] \in DOMAIN socks /\ socks[q[i]] = u }
NodeTickets(q, u) == { i \in 1..Len(q) : q[i].userId = u }

\* C17: the queue never holds two tickets of one identity, and a find_match
\* of an identity that already has a ticket pairs nobody and leaves that one
\* ticket in the queue, bound to the requesting connection.
C17_OneTicketPerIdentity ==
  [][ /\ (impl = "worker") =>
           /\ \A u \in Users : Cardinality(WorkerTickets(queue', mmSockets', u)) <= 1
           /\ (ev'.kind = "find_match" /\ WorkerTickets(queue, mmSockets, ev'.userId) # {}) =>
                /\ out' = <<>>
                /\ Len(queue') = Len(queue)
                /\ \E i \in WorkerTickets(queue', mmSockets', ev'.userId) : queue'[i] = ev'.conn
      /\ (impl = "node") =>
           /\ \A u \in Users : Cardinality(NodeTickets(matchQueue', u)) <= 1
           /\ (ev'.kind = "find_match" /\ NodeTickets(matchQueue, ev'.userId) # {}) =>
                /\ out' = <<>>
                /\ Len(matchQueue') = Len(matchQueue)
                /\ \E i \in NodeTickets(matchQueue', ev'.userId) : matchQueue'[i].ws = ev'.conn
    ]_vars

\* the same, of the Node matchQueue alone
C17_NodeOnly ==
  [][ /\ (impl = "node") =>
           /\ \A u \in Users : Cardinality(NodeTickets(matchQueue', u)) <= 1
           /\ (ev'.kind = "find_match" /\ NodeTickets(matchQueue, ev'.userId) # {}) =>
                /\ out' = <<>>
                /\ Len(matchQueue') = Len(matchQueue)
                /\ \E i \in NodeTickets(matchQueue', ev'.userId) : matchQueue'[i].ws = ev'.conn
    ]_vars

\* the connections the match_found events of o go to
Paired(o) == { o[i].to : i \in { j \in 1..Len(o) : o[j].msg.type = "match_found" } }

\* C18: no ticket of the matchmaking queue is bound to a connection whose
\* close has been handled (in the worker every queued connection is registered
\* and open), and a find_match is paired with open connections only.
C18_NoTicketOfClosedConnection ==
  /\ impl = "worker" =>
       /\ \A i \in 1..Len(queue) : queue[i] \in DOMAIN mmSockets /\ handlers[queue[i]] = 2
       /\ \A c \in Paired(out) : c \in DOMAIN mmSockets /\ handlers[c] = 2
  /\ impl = "node" =>
       /\ \A i \in 1..Len(matchQueue) : handlers[matchQueue[i].ws] = 1
       /\ \A c \in Paired(out) : handlers[c] = 1 /\ c \notin closing

\* the close of a queued Node connection has removed its ticket
C18_Witness ==
  /\ impl = "node" /\ ev.kind = "close" /\ ev.tickets = 1
  /\ handlers[ev.conn] = 0
  /\ matchQueue = <<>>

\* C19: a /notify for user X sends one new_invite to every websocket the Hub
\* has registered for X and nothing to any other connection; with no
\* websocket registered for X nothing is sent; the call answers 200 either way.
C19_NotifyReachesTheUser ==
  (impl = "worker" /\ ev.kind = "notify") =>
    /\ \A ws \in DOMAIN hubSockets :
         hubSockets[ws] = ev.toUserId => Cardinality(SentTo(out, ws, "new_invite")) = 1
    /\ \A i \in 1..Len(out) :
         /\ out[i].msg.type = "new_invite"
         /\ out[i].to \in DOMAIN hubSockets /\ hubSockets[out[i].to] = ev.toUserId
    /\ ev.status = 200

\* a notification has reached a websocket of its user while a websocket of
\* another user was registered
C19_Witness ==
  /\ impl = "worker" /\ ev.kind = "notify"
  /\ out # <<>>
  /\ \E ws \in DOMAIN hubSockets : hubSockets[ws] # ev.toUserId

\* the respond calls that returned a status and a room id for invite i
Answered(rs, i) == { r \in 1..Len(rs) : rs[r].invite = i /\ rs[r].code = 200 }

\* what C20 asks of one step
InviteTerminal ==
  /\ \A i \in 1..Len(invites') : Cardinality(Answered(responds', i)) <= 1
  /\ \A i \in 1..Len(invites) :
       invites[i].status # "pending" => invites'[i].status = invites[i].status

\* C20: an invite that was accepted or declined keeps its status, and at most
\* one respond call per invite returns a status and a room id, however the
\* calls overlap.
C20_InviteTerminal == [][InviteTerminal]_vars

\* the same, of the Node routes alone
C20_NodeOnly == [][impl = "node" => InviteTerminal]_vars

\* the connections of the room a relayed event is addressed to: the sockets
\* of the worker Room, the clients of the Node room the event names
Members ==
  IF impl = "worker" THEN DOMAIN sockets
  ELSE IF ev.room \in DOMAIN rooms THEN rooms[ev.room].clients ELSE {}

\* the event relayed by the step: the type and fields of the event received
Relayed ==
  IF ev.kind = "chat" THEN [type |-> "chat", text |-> ev.text, sender |-> ev.sender]
  ELSE [type |-> "draw_request", sender |-> ev.sender]

\* the text and sender the event carries are strings (the frame is well formed)
WellFormed ==
  IF ev.kind = "chat" THEN IsString(ev.text) /\ IsString(ev.sender) ELSE IsString(ev.sender)

\* C14: a chat event and a draw_request event of connection C go, with text
\* and sender as received, once to every connection of the room except C, and
\* nothing goes to C (worker Room and Node rooms).
C14_RelayedToOthers ==
  (ev.kind \in {"chat", "draw_request"} /\ WellFormed) =>
    /\ \A c \in Members \ {ev.conn} :
         Cardinality({ i \in 1..Len(out) : out[i].to = c }) = 1
    /\ \A i \in 1..Len(out) :
         out[i].to \in Members \ {ev.conn} /\ out[i].msg = Relayed

\* a chat of a seat-holder has reached the two other connections of the room
C14_Witness ==
  /\ ev.kind = "chat" /\ WellFormed
  /\ Len(out) = 2 /\ out[1].to # out[2].to
  /\ out[1].msg.text = ev.text /\ out[1].msg.sender = ev.sender

\* C15: a draw_respond event goes once to every connection of the room, the
\* connection that sent it included (worker Room and Node rooms).
C15_DrawRespondToAll ==
  (ev.kind = "draw_respond") =>
    /\ \A c \in Members : Cardinality(SentTo(out, c, "draw_respond")) = 1
    /\ impl = "worker" => ev.conn \in Members
    /\ \A i \in 1..Len(out) :
         /\ out[i].to \in Members
         /\ out[i].msg = [type |-> "draw_respond", accepted |-> ev.accepted]

\* the sender of a draw_respond and another connection of the room have both
\* been sent the answer
C15_Witness ==
  /\ ev.kind = "draw_respond"
  /\ SentTo(out, ev.conn, "draw_respond") # {}
  /\ \E c \in Members \ {ev.conn} : SentTo(out, c, "draw_respond") # {}

\* the respond call the step has just received
NewCall == responds'[Len(responds')]

\* C21: a respond call of a user the invite is not addressed to is answered
\* not found (404) and leaves the invite present with the status it had; every
\* call that marks, removes or is answered for an invite is its addressee's.
C21_OnlyTheRecipientResponds ==
  [][ /\ (ev'.kind = "respond" /\ Len(responds') = Len(responds) + 1
          /\ NewCall.invite \in 1..Len(invites)
          /\ invites[NewCall.invite].to # NewCall.user) =>
            /\ NewCall.code = 404 /\ NewCall.pc = "done"
            /\ invites' = invites
      /\ \A r \in 1..Len(responds') :
           (responds'[r].code = 200 \/ responds'[r].pc # "done") =>
              invites'[responds'[r].invite].to = responds'[r].user
      /\ \A i \in 1..Len(invites) :
           invites'[i] # invites[i] =>
             \E r \in 1..Len(responds') :
               /\ responds'[r].invite = i /\ responds'[r].user = invites[i].to
               /\ (r > Len(responds) \/ responds'[r] # responds[r])
    ]_vars

\* a user has just been answered not found for a pending invite addressed to
\* somebody else, and the invite is still there
C21_Witness ==
  /\ ev.kind = "respond" /\ responds # <<>>
  /\ LET call == responds[Len(responds)] IN
     /\ call.code = 404
     /\ call.invite \in 1..Len(invites)
     /\ invites[call.invite].to # call.user
     /\ invites[call.invite].present /\ invites[call.invite].status = "pending"

\* C22: in the Node server a connection whose close has been handled is in no
\* user's connection set, whatever auth messages it sent, and no new_invite is
\* sent to a connection that is not open.
C22_ClosedConnectionUnbound ==
  impl = "node" =>
    /\ \A u \in Users : \A ws \in userConnections[u] : handlers[ws] = 1
    /\ \A i \in 1..Len(out) :
         out[i].msg.type = "new_invite" => (handlers[out[i].to] = 1 /\ out[i].to \notin closing)

\* the notification half of C22 alone
C22_NoInviteToClosed ==
  impl = "node" =>
    \A i \in 1..Len(out) :
      out[i].msg.type = "new_invite" => (handlers[out[i].to] = 1 /\ out[i].to \notin closing)

\* C23: in the worker Room the second run of cleanup for a connection (its
\* close and error listeners have both fired) changes neither seat, nor the
\* connection set, nor the started flag, nor the position, also when another
\* connection has taken the vacated seat in between.
C23_SecondCleanupChangesNothing ==
  [][ (impl = "worker" /\ ev'.kind = "cleanup" /\ handlers[ev'.conn] = 1) =>
        /\ white' = white /\ black' = black
        /\ sockets' = sockets
        /\ started' = started
        /\ fen' = fen
    ]_vars

\* the second cleanup of a connection has run after a later connection took
\* the seat it had left and the game started again
C23_Witness ==
  /\ impl = "worker" /\ ev.kind = "cleanup" /\ handlers[ev.conn] = 0
  /\ ev.conn \notin DOMAIN sockets
  /\ BothSeated /\ started
  /\ (white > ev.conn \/ black > ev.conn)

\* C24: in the worker Room every join and every cleanup sends one stats event
\* to each connection that is a member after the change (the joiner included,
\* the connection that closed excluded) and to nobody else, with the number of
\* members after the change as its count.
C24_StatsAfterEveryChange ==
  (impl = "worker" /\ ev.kind \in {"join", "cleanup"}) =>
    /\ \A c \in DOMAIN sockets : Cardinality(SentTo(out, c, "stats")) = 1
    /\ \A i \in 1..Len(out) :
         out[i].msg.type = "stats" =>
           /\ out[i].to \in DOMAIN sockets
           /\ out[i].msg.count = Cardinality(DOMAIN sockets)

\* a connection has closed and the two that remain (a spectator among them)
\* have been sent the new count
C24_Witness ==
  /\ impl = "worker" /\ ev.kind = "cleanup"
  /\ Cardinality(DOMAIN sockets) = 2
  /\ \E c \in DOMAIN sockets : sockets[c].role = "s"
  /\ \A c \in DOMAIN sockets : SentTo(out, c, "stats") # {}
  /\ SentTo(out, ev.conn, "stats") = {}

\* the seats of the room a join step was for, after the join
SeatsAfterJoin ==
  IF impl = "worker" THEN [white |-> white, black |-> black]
  ELSE [white |-> rooms[ev.room].white, black |-> rooms[ev.room].black]

\* C25: the role event of a join carries waiting = true exactly when the
\* joiner was given a seat and the opposing seat is vacant; it is false for a
\* spectator and for the joiner that fills the second seat (worker and Node).
C25_WaitingFlag ==
  (ev.kind = "join") =>
    /\ Cardinality(SentTo(out, ev.conn, "role")) = 1
    /\ \A i \in SentTo(out, ev.conn, "role") :
         out[i].msg.waiting =
           (\/ (out[i].msg.role = "w" /\ SeatsAfterJoin.black = None)
            \/ (out[i].msg.role = "b" /\ SeatsAfterJoin.white = None))

\* a joiner has filled the second seat and was told it does not wait
C25_Witness ==
  /\ ev.kind = "join"
  /\ SeatsAfterJoin.white # None /\ SeatsAfterJoin.black # None
  /\ \E i \in SentTo(out, ev.conn, "role") : out[i].msg.role = "b" /\ ~out[i].msg.waiting

\* C26: after a restart of the worker Room the position, the started flag and
\* both seat identities are those of the last write that completed (the
\* initial ones when none did), and no connection has a seat or is a member.
C26_RestartRestoresLastWrite ==
  [][ (impl = "worker" /\ ev'.kind = "restart") =>
        /\ stored # NoStore =>
             /\ fen' = stored.fen /\ started' = stored.started
             /\ whiteMeta' = stored.whiteMeta /\ blackMeta' = stored.blackMeta
        /\ stored = NoStore =>
             /\ fen' = NoFen /\ ~started'
             /\ whiteMeta' = NoMeta /\ blackMeta' = NoMeta
        /\ white' = None /\ black' = None
        /\ DOMAIN sockets' = {}
        /\ stored' = stored
    ]_vars

\* the Room has restarted and read back a snapshot with a position and a
\* known white player
C26_Witness ==
  /\ impl = "worker" /\ ev.kind = "restart"
  /\ stored # NoStore
  /\ fen \in Positions /\ fen = stored.fen
  /\ whiteMeta.id # None /\ whiteMeta = stored.whiteMeta
  /\ white = None /\ black = None

\* C27: in the worker Room started is true only while both seats are held by
\* connections of the room, in every reachable state, those after a restart
\* included.
C27_StartedOnlyWithBothSeats ==
  (impl = "worker" /\ started) =>
    /\ white # None /\ white \in DOMAIN sockets
    /\ black # None /\ black \in DOMAIN sockets

\* C28: in the Node rooms table the identity recorded for a seat is the one
\* its occupant supplied when it took the seat, absent for an anonymous
\* occupant, whoever held the seat before.
C28_SeatIdentityIsTheOccupants ==
  [][ (impl = "node" /\ ev'.kind = "join") =>
        LET before == IF ev'.room \in DOMAIN rooms THEN rooms[ev'.room] ELSE NewRoom
            after == rooms'[ev'.room]
        IN /\ (before.white = None /\ after.white = ev'.conn) =>
                (after.whiteId = ev'.userId /\ after.whiteUsername = Username(ev'.userId))
           /\ (before.black = None /\ after.black = ev'.conn) =>
                (after.blackId = ev'.userId /\ after.blackUsername = Username(ev'.userId))
    ]_vars
\* C29: in the Node server an event that names a room is delivered to nobody
\* and leaves the room's position as it was when the connection that sent it
\* is not one of the room's clients.
C29_OnlyMembersAffectARoom ==
  [][(impl' = "node"
      /\ ev'.kind \in {"move", "chat", "draw_request", "draw_respond"}
      /\ ev'.room \in DOMAIN rooms
      /\ ev'.conn \notin rooms[ev'.room].clients)
     => (out' = <<>> /\ rooms'[ev'.room].fen = rooms[ev'.room].fen)]_vars

\* C30: in the worker Room a move event changes the position only when the
\* connection that sent it holds the white or the black seat; a spectator's
\* move leaves the position as it was and is relayed to nobody as a move.
C30_OnlySeatHoldersMove ==
  [][(impl' = "worker" /\ ev'.kind = "move"
      /\ ev'.conn \in DOMAIN sockets /\ sockets[ev'.conn].role = "s")
     => (fen' = fen
         /\ \A i \in 1..Len(out') : out'[i].msg.type # "move")]_vars

\* C31: the two connections the worker Matchmaking queue sends match_found
\* for one room id are registered for two different user identities.
C31_NeverPairedWithOneself ==
  (impl = "worker" /\ ev.kind = "find_match") =>
    \A c \in Paired(out), d \in Paired(out) :
      c # d => mmSockets[c] # mmSockets[d]

\* the connections the tickets of the matchmaking queue are bound to, in order
QueueConns ==
  IF impl = "worker" THEN queue
  ELSE [i \in 1..Len(matchQueue) |-> matchQueue[i].ws]

\* C32: the matchmaking queue never holds more than one ticket, and a
\* find_match that arrives while a ticket of another connection is waiting
\* either is paired with that connection, leaving the queue empty, or leaves
\* its own ticket as the only one.
C32_AtMostOneTicket ==
  [][ /\ Len(QueueConns') <= 1
      /\ (ev'.kind = "find_match" /\ Len(QueueConns) = 1 /\ QueueConns[1] # ev'.conn) =>
           \/ Paired(out') = {ev'.conn, QueueConns[1]} /\ QueueConns' = <<>>
           \/ out' = <<>> /\ QueueConns' = <<ev'.conn>>
    ]_vars

\* a find_match has been paired with the connection that was waiting
C32_Witness ==
  /\ ev.kind = "find_match"
  /\ Cardinality(Paired(out)) = 2
  /\ QueueConns = <<>>

\* the message types the Room listener has a branch for
KnownTypes == {"move", "chat", "draw_request", "draw_respond", "voice_signal", "game_over"}

\* a frame that is not JSON, has no type or an unrecognized one, or is a move,
\* chat or draw_request without one of its required strings
Malformed(m) ==
  \/ ~m.json
  \/ m.type = Undefined
  \/ m.type \notin KnownTypes
  \/ m.type = "move" /\ (m.from = Undefined \/ m.to = Undefined \/ m.fen = Undefined)
  \/ m.type = "chat" /\ (m.text = Undefined \/ m.sender = Undefined)
  \/ m.type = "draw_request" /\ m.sender = Undefined

\* C33: a malformed frame changes nothing of the worker Room (seats, sockets,
\* started, position, stored state and pending writes), starts no settlement,
\* sends nothing, and leaves its sender connected.
C33_MalformedFramesDropped ==
  [][(ev'.kind = "message" /\ Malformed(ev'.frame)) =>
       /\ UNCHANGED roomVars
       /\ UNCHANGED <<tasks, db, games>>
       /\ out' = <<>>
       /\ handlers'[ev'.conn] = 2 /\ ev'.conn \in DOMAIN sockets'
    ]_vars

\* a move without its fen has been received in a room of two connections
C33_Witness ==
  /\ ev.kind = "message" /\ ev.frame.type = "move" /\ ev.frame.fen = Undefined
  /\ ev.frame.from # Undefined /\ ev.frame.to # Undefined
  /\ Cardinality(DOMAIN sockets) = 2
  /\ out = <<>> /\ fen = "null"

\* C34: when the send to some recipients of a worker Room broadcast throws,
\* every other intended recipient is still sent the event once, the failing
\* ones and the sender are sent nothing, and no room state changes.
C34_SendFailuresIsolated ==
  [][(ev'.kind = "chat_fail") =>
       /\ \A c \in DOMAIN sockets :
            Cardinality({i \in 1..Len(out') : out'[i].to = c /\ out'[i].msg.type = "chat"})
              = IF c = ev'.conn \/ c \in ev'.failing THEN 0 ELSE 1
       /\ UNCHANGED roomVars
    ]_vars

\* the send to the first socket threw and a later socket got the chat
C34_Witness ==
  /\ ev.kind = "chat_fail" /\ ev.failing = {1} /\ ev.conn = 2
  /\ DOMAIN sockets = {1, 2, 3}
  /\ out = <<[to |-> 3, msg |-> [type |-> "chat", text |-> "hi", sender |-> "ann"]]>>

\* C35: in the worker Room the cleanup of a spectator's connection removes
\* that connection from the sockets and nothing else: seats, seat identities,
\* started and the position are unchanged and no start_game is sent.
C35_SpectatorCloseOnlyRemovesIt ==
  [][(impl' = "worker" /\ ev'.kind = "cleanup"
      /\ ev'.conn \in DOMAIN sockets /\ sockets[ev'.conn].role = "s") =>
       /\ sockets' = [c \in DOMAIN sockets \ {ev'.conn} |-> sockets[c]]
       /\ UNCHANGED <<white, black, whiteMeta, blackMeta, started, fen>>
       /\ \A i \in 1..Len(out') : out'[i].msg.type # "start_game"
    ]_vars

\* the spectator of a started game has gone
C35_Witness ==
  /\ impl = "worker" /\ ev.kind = "cleanup" /\ ev.conn = 3 /\ handlers[3] = 1
  /\ DOMAIN sockets = {1, 2} /\ white = 1 /\ black = 2
  /\ started

StartSends(o, c, color, both, info) ==
  /\ Cardinality(SentTo(o, c, "start_game")) = 1
  /\ \A i \in SentTo(o, c, "start_game") : o[i].msg = [type |-> "start_game", color |-> color]
  /\ IF ~both
     THEN SentTo(o, c, "opponent_info") = {}
     ELSE /\ Cardinality(SentTo(o, c, "opponent_info")) = 1
          /\ \A i \in SentTo(o, c, "opponent_info") :
               /\ o[i].msg = [type |-> "opponent_info", id |-> info.id, username |-> info.username]
               /\ \A j \in SentTo(o, c, "start_game") : i < j

\* C37: when a join starts the game in the worker Room, each seat-holder is
\* sent one start_game with its colour; when both seat identities are known it
\* is sent before that one opponent_info with the other seat's id and
\* username, and when one is unknown nobody is sent an opponent_info.
C37_OpponentInfoBeforeStart ==
  [][(impl' = "worker" /\ ev'.kind = "join" /\ ~started /\ started') =>
       LET both == Known(whiteMeta') /\ Known(blackMeta') IN
       /\ StartSends(out', white', "w", both, blackMeta')
       /\ StartSends(out', black', "b", both, whiteMeta')
       /\ \A i \in 1..Len(out') :
            out'[i].msg.type \in {"start_game", "opponent_info"} => out'[i].to \in {white', black'}
    ]_vars

\* a game of two identified players has started
C37_Witness ==
  /\ impl = "worker" /\ ev.kind = "join" /\ ev.conn = 2 /\ black = 2 /\ white = 1
  /\ started /\ whiteMeta.id = 1 /\ blackMeta.id = 2
  /\ SentTo(out, 1, "opponent_info") # {} /\ SentTo(out, 2, "start_game") # {}

\* the room of a game_over event has an anonymous seat-holder. Worker: a seat
\* is taken and its identity, written when it was taken, is unset. Node: the
\* step before was a join without userId that was given the role w or b.
AnonymousSeat ==
  IF impl = "worker"
  THEN \/ white # None /\ whiteMeta.id = None
       \/ black # None /\ blackMeta.id = None
  ELSE /\ ev.kind = "join" /\ ev.userId = None
       /\ ev.room = ev'.room
       /\ \E i \in 1..Len(out) :
            /\ out[i].to = ev.conn /\ out[i].msg.type = "role"
            /\ out[i].msg.role \in {"w", "b"}

\* C38: a game_over event for a room with an anonymous seat-holder starts no
\* settlement (no rating, counter or game record changes) and is sent to every
\* other connection of the room.
C38_AnonymousGameNotSettled ==
  [][(ev'.kind = "game_over" /\ AnonymousSeat) =>
       /\ UNCHANGED <<tasks, db, games>>
       /\ \A c \in Members' \ {ev'.conn} : SentTo(out', c, "game_over") # {}
    ]_vars

\* the same, of the worker Room alone
C38_WorkerOnly ==
  [][(impl = "worker" /\ ev'.kind = "game_over" /\ AnonymousSeat) =>
       /\ UNCHANGED <<tasks, db, games>>
       /\ \A c \in DOMAIN sockets \ {ev'.conn} : SentTo(out', c, "game_over") # {}
    ]_vars

\* the roles of the worker Room's sockets agree with its seats
RolesAgree ==
  /\ \A c \in DOMAIN sockets :
       /\ sockets[c].role = "w" <=> white = c
       /\ sockets[c].role = "b" <=> black = c
  /\ white # None => white \in DOMAIN sockets
  /\ black # None => black \in DOMAIN sockets

\* C39: in the worker Room a connection has role w exactly while it is the
\* white seat, role b exactly while it is the black seat, every seat-holder is
\* one of the sockets, and the role of a connection never changes while it
\* stays in the room (a spectator is not promoted to a vacated seat).
C39_RolesAgreeWithSeats ==
  [][impl' = "worker" =>
       /\ RolesAgree'
       /\ \A c \in DOMAIN sockets \cap DOMAIN sockets' :
            sockets'[c].role = sockets[c].role
    ]_vars

\* white has left and the spectator is still a spectator opposite black
C39_Witness ==
  /\ impl = "worker" /\ ev.kind = "cleanup" /\ ev.conn = 1
  /\ DOMAIN sockets = {2, 3}
  /\ white = None /\ black = 2
  /\ sockets[3].role = "s" /\ sockets[2].role = "b"

====
